---- MODULE Spec2Model ----
(***************************************************************************)
(* Model of bin/translate-strings.mjs: a batch tool that finds Japanese    *)
(* text in string literals, JSX text and comments, translates each         *)
(* occurrence through a chat-completion backend and prints the tree back.  *)
(*                                                                         *)
(* Text is a sequence of code points.  A file's text is abstracted as the  *)
(* sequence of its textual leaves (kind, value); the parser and printer    *)
(* are external (jscodeshift / recast) and keep untouched leaves as they   *)
(* are.  JavaScript runs one job at a time: the synchronous part of        *)
(* transform (the three loops) is never interleaved with a callback, and   *)
(* callbacks run only while main is suspended at an await.                 *)
(***************************************************************************)
EXTENDS Integers, Sequences, FiniteSets, TLC

\* ---------------------------------------------------------------- bounds
\* Leaves read during one run, summed over its reads.
MaxNodes == 2
\* Files found by glob during one run, a file found under two paths counted twice.
MaxFiles == 2
\* Command-line paths of one run.
MaxPaths == 2
\* Code points of a text handed to the detector on its own.
MaxTextLen == 2

\* ------------------------------------------------------------ pure helpers
\* a drop of the last range of the class, \u3400-\u4dbf
JapaneseRanges_NoExtensionA ==
    { <<12288, 12351>>, <<12352, 12447>>, <<12448, 12543>>,
      <<65280, 65439>>, <<19968, 40879>> }

\* /[\u3000-\u303f\u3040-\u309f\u30a0-\u30ff\uff00-\uff9f\u4e00-\u9faf\u3400-\u4dbf]/
JapaneseRanges ==
    { <<12288, 12351>>, <<12352, 12447>>, <<12448, 12543>>,
      <<65280, 65439>>, <<19968, 40879>>, <<13312, 19903>> }

\* the regex has no u flag: it tests the UTF-16 code units of the string
containsJapanese(text) ==
    \E i \in 1..Len(text) :
        \E r \in JapaneseRanges : r[1] <= text[i] /\ text[i] <= r[2]

\* the code units of a JavaScript string holding the given code points
RECURSIVE UTF16(_)
UTF16(cps) ==
    IF cps = <<>> THEN <<>>
    ELSE LET c == Head(cps)
         IN  (IF c < 65536 THEN <<c>>
              ELSE << 55296 + ((c - 65536) \div 1024),
                      56320 + ((c - 65536) % 1024) >>) \o UTF16(Tail(cps))

\* White space and line terminators removed by String.prototype.trim.
IsWhiteSpace(c) ==
    \/ c \in {9, 10, 11, 12, 13, 32, 160, 5760, 8232, 8233, 8239, 8287, 12288, 65279}
    \/ (8192 <= c /\ c <= 8202)

RECURSIVE TrimStart(_)
TrimStart(s) ==
    IF s = <<>> THEN s
    ELSE IF IsWhiteSpace(Head(s)) THEN TrimStart(Tail(s)) ELSE s

RECURSIVE TrimEnd(_)
TrimEnd(s) ==
    IF s = <<>> THEN s
    ELSE IF IsWhiteSpace(s[Len(s)]) THEN TrimEnd(SubSeq(s, 1, Len(s) - 1)) ELSE s

Trim(s) == TrimEnd(TrimStart(s))

\* ` ${translatedText} `
Pad(s) == <<32>> \o s \o <<32>>

\* `[DRYRUN] Would translate: "${text}"`
DryRunMarker(text) ==
    << 91, 68, 82, 89, 82, 85, 78, 93, 32, 87, 111, 117, 108, 100, 32,
       116, 114, 97, 110, 115, 108, 97, 116, 101, 58, 32, 34 >> \o text \o <<34>>

\* --------------------------------------------------------------- inputs
\* Leaves a file may hold: candidates and non-candidates of each kind, with
\* and without surrounding white space.
NodeSamples ==
    { [kind |-> "StringLiteral", type |-> "StringLiteral", value |-> <<12354>>],
      [kind |-> "StringLiteral", type |-> "StringLiteral", value |-> <<97>>],
      [kind |-> "JSXText",       type |-> "JSXText",       value |-> <<12354>>],
      [kind |-> "JSXText",       type |-> "JSXText",       value |-> <<32, 97>>],
      [kind |-> "Comment",       type |-> "CommentLine",   value |-> <<32, 12354>>],
      [kind |-> "Comment",       type |-> "CommentBlock",  value |-> <<32, 12354, 32>>] }

SeqsUpTo(S, n) == UNION { [1..k -> S] : k \in 0..n }

\* Code points a text may hold: the first and last of each range of the
\* class, their outer neighbours, plain ASCII and one code point beyond the
\* basic plane (two code units).
CodePointSamples ==
    { 32, 97, 12287, 12288, 12351, 12352, 12447, 12448, 12543, 12544,
      13311, 13312, 19903, 19904, 19967, 19968, 40879, 40880,
      65279, 65280, 65439, 65440, 131072 }

\* response.choices[0].message.content of a well-formed response
BackendContents == { <<32, 98, 10>> }

NoText == <<>>
\* a file on disk: not written by this run, or written (times times, the
\* last time with text)
Untouched == [written |-> FALSE, text |-> <<>>, times |-> 0]
Rewritten(old, text) == [written |-> TRUE, text |-> text, times |-> old.times + 1]

VARIABLES
    dryRun,               \* argv["dry-run"]
    clientOk,             \* whether `new OpenAI()` succeeds in this environment
    pc,                   \* position of main / processFile / transform
    pathsLeft,            \* paths main has still to glob
    files,                \* result of the current glob
    fileIdx,              \* index in files of the file being processed
    discovered,           \* number of distinct files discovered so far
    filesLeft,            \* files glob may still find (MaxFiles)
    source,               \* fileInfo.source of the current file
    tree,                 \* root: the leaves of the current file's tree
    paths,                \* the .paths() the running loop iterates over
    pathPos,              \* position of the running loop in paths
    translationPromises,  \* the tasks pushed so far, in creation order
    output,               \* what transform returned
    ret,                  \* which return of transform ran: "toSource" | "source"
    disk,                 \* per file: Untouched, or Rewritten with the text written
    requests,             \* requests issued to the backend in this run
    report,               \* dry-run report lines (console.log of line 13)
    writes,               \* per leaf of the current tree: number of write-backs
    nodesLeft,            \* leaves the run may still read (MaxNodes)
    processed,            \* files whose processFile has returned
    input,                \* the text of a call of containsJapanese on its own
    detected              \* what that call returned: "none" before it, "true" | "false"

vars == << dryRun, clientOk, pc, pathsLeft, files, fileIdx, discovered, filesLeft, source,
           tree, paths, pathPos, translationPromises, output, ret, disk,
           requests, report, writes, nodesLeft, processed, input, detected >>

\* what no step of a run changes
run    == << dryRun, clientOk, input, detected >>
mainSt == << pathsLeft, files, fileIdx, discovered, filesLeft >>
locals == << source, tree, paths, pathPos, translationPromises, output, ret, writes >>

File == files[fileIdx]

\* callbacks that may run at any point, also between two loop iterations
Suspended_Always == TRUE

\* callbacks that may also run between two iterations of the three loops
Suspended_InLoops ==
    pc \in {"glob", "readFile", "awaitAll", "transformReturned",
            "loopStringLiteral", "loopJSXText", "loopComment"}

\* main is suspended at an await: callbacks and continuations may run
Suspended == pc \in {"glob", "readFile", "awaitAll", "transformReturned"}

Init ==
    /\ dryRun \in BOOLEAN
    /\ clientOk \in BOOLEAN
    /\ pc = "glob"
    /\ pathsLeft \in 1..MaxPaths
    /\ files = <<>>
    /\ fileIdx = 1
    /\ discovered = 0
    /\ filesLeft = MaxFiles
    /\ source = <<>>
    /\ tree = <<>>
    /\ paths = <<>>
    /\ pathPos = 1
    /\ translationPromises = <<>>
    /\ output = <<>>
    /\ ret = "none"
    /\ disk = [f \in 1..MaxFiles |-> Untouched]
    /\ requests = 0
    /\ report = <<>>
    /\ writes = <<>>
    /\ nodesLeft = MaxNodes
    /\ processed = {}
    /\ input = <<>>
    /\ detected = "none"

\* ------------------------------------------------------------- main loop
\* for (const p of paths) { files = await glob(..); for (const file of files) .. }
NextPc(fs, idx, left) ==
    IF idx <= Len(fs) THEN "readFile"
    ELSE IF left > 0 THEN "glob" ELSE "done"

\* a tree and a task list shared by all files instead of owned by one call
ResetLocals_Shared ==
    /\ source' = <<>>
    /\ paths' = <<>>
    /\ pathPos' = 1
    /\ output' = <<>>
    /\ ret' = "none"
    /\ UNCHANGED << tree, translationPromises, writes >>

\* the locals of processFile and transform go out of scope
ResetLocals ==
    /\ source' = <<>>
    /\ tree' = <<>>
    /\ paths' = <<>>
    /\ pathPos' = 1
    /\ translationPromises' = <<>>
    /\ output' = <<>>
    /\ ret' = "none"
    /\ writes' = <<>>

\* processFile returns (normally or through its catch); main takes the next file
ReturnFromProcessFile ==
    /\ processed' = processed \cup {File}
    /\ fileIdx' = fileIdx + 1
    /\ pc' = NextPc(files, fileIdx + 1, pathsLeft)
    /\ ResetLocals
    /\ UNCHANGED << pathsLeft, files, discovered, filesLeft >>

\* the files of a set, in ascending order
RECURSIVE Ascending(_)
Ascending(S) ==
    IF S = {} THEN <<>>
    ELSE LET m == CHOOSE x \in S : \A y \in S : x <= y
         IN  <<m>> \o Ascending(S \ {m})

\* await glob(`${p}/**/*.{js,jsx,ts,tsx}`): the path holds files found under
\* an earlier path (overlapping or repeated paths) and files not seen before
Glob ==
    /\ pc = "glob"
    /\ \E old \in SUBSET (1..discovered) : \E k \in 0..(filesLeft - Cardinality(old)) :
        /\ files' = Ascending(old \cup ((discovered + 1)..(discovered + k)))
        /\ discovered' = discovered + k
        /\ filesLeft' = filesLeft - Len(files')
        /\ pathsLeft' = pathsLeft - 1
        /\ fileIdx' = 1
        /\ pc' = NextPc(files', 1, pathsLeft')
    /\ UNCHANGED << run, locals, disk, requests, report, nodesLeft, processed >>

\* glob rejects: main() rejects and main().catch(console.error) logs it
GlobThrows ==
    /\ pc = "glob"
    /\ pc' = "aborted"
    /\ UNCHANGED << run, mainSt, locals, disk, requests, report, nodesLeft, processed >>

\* const source = await fs.readFile(file, "utf8"): the text the file holds
\* now, whatever this run or anyone else wrote to it before
ReadFile ==
    /\ pc = "readFile"
    /\ \E src \in SeqsUpTo(NodeSamples, nodesLeft) :
        /\ source' = src
        /\ nodesLeft' = nodesLeft - Len(src)
    /\ pc' = "parse"
    /\ UNCHANGED << run, mainSt, tree, paths, pathPos, translationPromises, output,
                    ret, disk, requests, report, writes, processed >>

\* processFile without its try/catch: the rejection reaches main().catch
ReadFileThrows_Abort ==
    /\ pc = "readFile"
    /\ pc' = "aborted"
    /\ UNCHANGED << run, mainSt, locals, disk, requests, report, nodesLeft, processed >>

\* readFile rejects: caught by processFile, the file is skipped
ReadFileThrows ==
    /\ pc = "readFile"
    /\ ReturnFromProcessFile
    /\ UNCHANGED << run, disk, requests, report, nodesLeft >>

\* ------------------------------------------------------------- transform
\* root.find(j.<Kind>).paths(): the leaves of that kind, in tree order
RECURSIVE Find(_, _, _)
Find(t, kind, i) ==
    IF i > Len(t) THEN <<>>
    ELSE (IF t[i].kind = kind THEN <<i>> ELSE <<>>) \o Find(t, kind, i + 1)

\* const root = j(fileInfo.source, {...}); then the first loop's paths
Parse ==
    /\ pc = "parse"
    /\ tree' = source
    /\ writes' = [i \in 1..Len(source) |-> 0]
    /\ translationPromises' = <<>>
    /\ paths' = Find(tree', "StringLiteral", 1)
    /\ pathPos' = 1
    /\ pc' = "loopStringLiteral"
    /\ UNCHANGED << run, mainSt, source, output, ret, disk, requests, report,
                    nodesLeft, processed >>

\* the parser throws: catch of transform returns fileInfo.source
ParseThrows ==
    /\ pc = "parse"
    /\ output' = source
    /\ ret' = "source"
    /\ pc' = "transformReturned"
    /\ UNCHANGED << run, mainSt, source, tree, paths, pathPos, translationPromises,
                    disk, requests, report, writes, nodesLeft, processed >>

\* translateToEnglish(text, dryRun, filePath) up to its first suspension,
\* chained with .then(callback): the task as it is pushed
NewTask(n, kind, text) ==
    [ file   |-> File,
      node   |-> n,
      kind   |-> kind,
      text   |-> text,
      st     |-> IF dryRun THEN "returned"
                 ELSE IF clientOk THEN "requested" ELSE "rejected",
      result |-> IF dryRun THEN DryRunMarker(text) ELSE NoText,
      caught |-> FALSE ]

\* what calling translateToEnglish does besides returning a promise
CallTranslate(n, kind, text) ==
    /\ translationPromises' = Append(translationPromises, NewTask(n, kind, text))
    /\ report' = IF dryRun THEN Append(report, [file |-> File, text |-> text])
                 ELSE report
    /\ requests' = IF ~dryRun /\ clientOk THEN requests + 1 ELSE requests

\* the text a loop hands to containsJapanese and to translateToEnglish
TaskText(kind, value) == IF kind = "StringLiteral" THEN value ELSE Trim(value)

\* Loop without the containsJapanese test of lines 63, 76 and 87
Loop_NoCheck(here, kind, next, nextKind) ==
    /\ pc = here
    /\ IF pathPos <= Len(paths)
       THEN LET n    == paths[pathPos]
                text == TaskText(kind, tree[n].value)
            IN  /\ CallTranslate(n, kind, text)
                /\ pathPos' = pathPos + 1
                /\ UNCHANGED << pc, paths >>
       ELSE /\ pc' = next
            /\ paths' = IF nextKind = "none" THEN <<>> ELSE Find(tree, nextKind, 1)
            /\ pathPos' = 1
            /\ UNCHANGED << translationPromises, report, requests >>
    /\ UNCHANGED << run, mainSt, source, tree, output, ret, disk, writes,
                    nodesLeft, processed >>

\* one iteration of `for (const path of root.find(j.<kind>).paths())`, or the
\* end of the loop, which starts the next one (nextKind) or reaches the join
Loop(here, kind, next, nextKind) ==
    /\ pc = here
    /\ IF pathPos <= Len(paths)
       THEN LET n    == paths[pathPos]
                text == TaskText(kind, tree[n].value)
            IN  /\ IF containsJapanese(text)
                   THEN CallTranslate(n, kind, text)
                   ELSE UNCHANGED << translationPromises, report, requests >>
                /\ pathPos' = pathPos + 1
                /\ UNCHANGED << pc, paths >>
       ELSE /\ pc' = next
            /\ paths' = IF nextKind = "none" THEN <<>> ELSE Find(tree, nextKind, 1)
            /\ pathPos' = 1
            /\ UNCHANGED << translationPromises, report, requests >>
    /\ UNCHANGED << run, mainSt, source, tree, output, ret, disk, writes,
                    nodesLeft, processed >>

LoopStringLiteral == Loop("loopStringLiteral", "StringLiteral", "loopJSXText", "JSXText")
LoopJSXText       == Loop("loopJSXText", "JSXText", "loopComment", "Comment")
LoopComment       == Loop("loopComment", "Comment", "awaitAll", "none")

\* ------------------------------------------------- backend and callbacks
\* what translateToEnglish returns once the backend has answered
\*   ok        : response.choices[0].message.content.trim()
\*   error     : create() rejects; the catch returns text
\*   malformed : the response has no choices[0].message.content; the
\*               TypeError is thrown inside the try and the catch returns text
Translated(task, outcome, content) ==
    IF outcome = "ok" THEN Trim(content) ELSE task.text

\* Settled with a catch that rethrows instead of returning text
Settled_Rethrow(task, outcome, content) ==
    IF outcome = "ok"
    THEN [task EXCEPT !.st = "returned", !.result = Trim(content)]
    ELSE [task EXCEPT !.st = "rejected", !.caught = TRUE]

\* the task once translateToEnglish has returned; caught records that the
\* catch of line 31 ran
Settled(task, outcome, content) ==
    [task EXCEPT !.st = "returned",
                 !.result = Translated(task, outcome, content),
                 !.caught = (outcome # "ok")]

\* the backend answers request t and translateToEnglish returns
BackendSettle(t) ==
    /\ Suspended
    /\ t \in DOMAIN translationPromises
    /\ translationPromises[t].st = "requested"
    /\ \E outcome \in {"ok", "error", "malformed"} : \E content \in BackendContents :
        translationPromises' =
            [translationPromises EXCEPT
                ![t] = Settled(translationPromises[t], outcome, content)]
    /\ UNCHANGED << run, pc, mainSt, source, tree, paths, pathPos, output, ret, disk,
                    requests, report, writes, nodesLeft, processed >>

\* Replacement that pads nothing and turns every comment into a block comment
Replacement_Bare(old, kind, translatedText) ==
    IF kind = "StringLiteral"
    THEN [kind |-> "StringLiteral", type |-> "StringLiteral", value |-> translatedText]
    ELSE IF kind = "JSXText"
    THEN [kind |-> "JSXText", type |-> "JSXText", value |-> translatedText]
    ELSE [kind |-> "Comment", type |-> "CommentBlock", value |-> translatedText]

\* the leaf a callback puts in place of the old one
\*   j(path).replaceWith(j.stringLiteral(translatedText))
\*   j(path).replaceWith(j.jsxText(` ${translatedText} `))
\*   path.value.value = ` ${translatedText} `
Replacement(old, kind, translatedText) ==
    IF kind = "StringLiteral"
    THEN [kind |-> "StringLiteral", type |-> "StringLiteral", value |-> translatedText]
    ELSE IF kind = "JSXText"
    THEN [kind |-> "JSXText", type |-> "JSXText", value |-> Pad(translatedText)]
    ELSE [old EXCEPT !.value = Pad(translatedText)]

\* Target looked up by text instead of by path: the first leaf of the kind
\* whose text was the task's
Target_ByText(task) ==
    CHOOSE n \in 1..Len(source) :
        /\ source[n].kind = task.kind
        /\ TaskText(task.kind, source[n].value) = task.text
        /\ \A m \in 1..(n - 1) :
              ~(source[m].kind = task.kind
                /\ TaskText(task.kind, source[m].value) = task.text)

\* Target taken from a shared cursor: the first leaf, in tree order, whose
\* task has not been written back yet
Target_InSettleOrder(task) ==
    LET open == { translationPromises[u].node :
                    u \in { v \in DOMAIN translationPromises :
                               translationPromises[v].st # "fulfilled" } }
    IN  CHOOSE n \in open : \A m \in open : n <= m

\* the leaf the callback of a task writes to: the path it closed over
Target(task) == task.node

\* the .then callback of task t runs
WriteBack(t) ==
    /\ Suspended
    /\ t \in DOMAIN translationPromises
    /\ translationPromises[t].st = "returned"
    /\ LET task == translationPromises[t]
           n    == Target(task)
       IN  /\ tree' = [tree EXCEPT ![n] = Replacement(tree[n], task.kind, task.result)]
           /\ writes' = [writes EXCEPT ![n] = writes[n] + 1]
    /\ translationPromises' = [translationPromises EXCEPT ![t].st = "fulfilled"]
    /\ UNCHANGED << run, pc, mainSt, source, paths, pathPos, output, ret, disk,
                    requests, report, nodesLeft, processed >>

\* ------------------------------------------------------- join and print
AllFulfilled ==
    \A t \in DOMAIN translationPromises : translationPromises[t].st = "fulfilled"
\* a join that does not see rejections
SomeRejected_Never == FALSE

SomeRejected ==
    \E t \in DOMAIN translationPromises : translationPromises[t].st = "rejected"

\* the join without the await
JoinReady_NoAwait == TRUE

\* the join as Promise.any: one fulfilled promise is enough
JoinReady_Any ==
    \/ translationPromises = <<>>
    \/ \E t \in DOMAIN translationPromises : translationPromises[t].st = "fulfilled"

\* Promise.all resolves once every promise is fulfilled
JoinReady == AllFulfilled

\* await Promise.all(translationPromises) resumes normally
PromiseAll ==
    /\ pc = "awaitAll"
    /\ JoinReady
    /\ pc' = "toSource"
    /\ UNCHANGED << run, mainSt, locals, disk, requests, report, nodesLeft, processed >>

\* root.toSource(): the leaves of the tree as they are now
toSource(t) == t

\* a catch that returns the tree as it stands
CatchValue_Tree == toSource(tree)

\* what the catch of transform returns
CatchValue == source

\* Promise.all rejects with the first rejection: catch of transform
PromiseAllRejects ==
    /\ pc = "awaitAll"
    /\ SomeRejected
    /\ output' = CatchValue
    /\ ret' = "source"
    /\ pc' = "transformReturned"
    /\ UNCHANGED << run, mainSt, source, tree, paths, pathPos, translationPromises,
                    disk, requests, report, writes, nodesLeft, processed >>

ToSource ==
    /\ pc = "toSource"
    /\ output' = toSource(tree)
    /\ ret' = "toSource"
    /\ pc' = "transformReturned"
    /\ UNCHANGED << run, mainSt, source, tree, paths, pathPos, translationPromises,
                    disk, requests, report, writes, nodesLeft, processed >>

\* the printer throws: catch of transform
ToSourceThrows ==
    /\ pc = "toSource"
    /\ output' = CatchValue
    /\ ret' = "source"
    /\ pc' = "transformReturned"
    /\ UNCHANGED << run, mainSt, source, tree, paths, pathPos, translationPromises,
                    disk, requests, report, writes, nodesLeft, processed >>

\* ------------------------------------------------------------ processFile
\* a write that ignores options.dryRun
MayWrite_Always == TRUE

\* if (!options.dryRun) await fs.writeFile(file, output)
MayWrite == ~dryRun

\* a write of the text that was read instead of transform's output
WriteFile_Source ==
    /\ pc = "transformReturned"
    /\ MayWrite
    /\ disk' = [disk EXCEPT ![File] = Rewritten(disk[File], source)]
    /\ ReturnFromProcessFile
    /\ UNCHANGED << run, requests, report, nodesLeft >>

\* await fs.writeFile(file, output), after which processFile returns
WriteFile ==
    /\ pc = "transformReturned"
    /\ MayWrite
    /\ disk' = [disk EXCEPT ![File] = Rewritten(disk[File], output)]
    /\ ReturnFromProcessFile
    /\ UNCHANGED << run, requests, report, nodesLeft >>

\* writeFile rejects: caught by processFile, the file is skipped
WriteFileThrows ==
    /\ pc = "transformReturned"
    /\ MayWrite
    /\ ReturnFromProcessFile
    /\ UNCHANGED << run, disk, requests, report, nodesLeft >>

\* dry run: processFile returns without writing
SkipWrite ==
    /\ pc = "transformReturned"
    /\ ~MayWrite
    /\ ReturnFromProcessFile
    /\ UNCHANGED << run, disk, requests, report, nodesLeft >>

Next ==
    \/ Glob
    \/ GlobThrows
    \/ ReadFile
    \/ ReadFileThrows
    \/ Parse
    \/ ParseThrows
    \/ LoopStringLiteral
    \/ LoopJSXText
    \/ LoopComment
    \/ \E t \in 1..MaxNodes : BackendSettle(t)
    \/ \E t \in 1..MaxNodes : WriteBack(t)
    \/ PromiseAll
    \/ PromiseAllRejects
    \/ ToSource
    \/ ToSourceThrows
    \/ WriteFile
    \/ WriteFileThrows
    \/ SkipWrite

Spec == Init /\ [][Next]_vars

\* The event loop runs a job whenever one is ready, every issued request is
\* answered or fails, and every file operation completes or fails.
Fairness == WF_vars(Next)

FairSpec == Spec /\ Fairness

\* ------------------------------------------------- the detector on its own
\* containsJapanese called on an arbitrary text, outside any run
InitDetector ==
    /\ input \in SeqsUpTo(CodePointSamples, MaxTextLen)
    /\ detected = "none"
    /\ dryRun = FALSE
    /\ clientOk = TRUE
    /\ pc = "done"
    /\ pathsLeft = 0
    /\ files = <<>>
    /\ fileIdx = 1
    /\ discovered = 0
    /\ filesLeft = 0
    /\ source = <<>>
    /\ tree = <<>>
    /\ paths = <<>>
    /\ pathPos = 1
    /\ translationPromises = <<>>
    /\ output = <<>>
    /\ ret = "none"
    /\ disk = [f \in 1..MaxFiles |-> Untouched]
    /\ requests = 0
    /\ report = <<>>
    /\ writes = <<>>
    /\ nodesLeft = 0
    /\ processed = {}

\* return /[...]/.test(text)
Detect ==
    /\ detected = "none"
    /\ detected' = IF containsJapanese(UTF16(input)) THEN "true" ELSE "false"
    /\ UNCHANGED << dryRun, clientOk, input, pc, mainSt, locals, disk, requests,
                    report, nodesLeft, processed >>

NextDetector == Detect

SpecDetector == InitDetector /\ [][NextDetector]_vars

\* =================================================================
\* Properties
\* =================================================================
Tasks == DOMAIN translationPromises
Leaves == 1..Len(source)

\* the three loops of the current file are over
PastLoops == pc \in {"awaitAll", "toSource", "transformReturned"}

\* the classifier's output on the tree as parsed
Candidates ==
    { n \in Leaves : containsJapanese(TaskText(source[n].kind, source[n].value)) }

\* the leaves a callback has written to
Mutated == { n \in DOMAIN writes : writes[n] > 0 }

\* C1: translateToEnglish always completes by returning a string: no call
\* ever ends in a rejection its caller sees.
C1_NeverRejects ==
    \A t \in Tasks : translationPromises[t].st # "rejected"

\* C2: in a non-dry run where every request fails, once all tasks have
\* settled every leaf of the tree has the text it had when parsed.
C2_FallbackKeepsText ==
    ( /\ ~dryRun
      /\ pc = "toSource"
      /\ \A t \in Tasks : translationPromises[t].caught )
    => \A n \in Leaves : tree[n].value = source[n].value

\* C3: when a step of the pipeline throws, transform returns the original
\* file text; otherwise it returns the tree printed after all tasks settled.
C3_OriginalOnFailure ==
    pc = "transformReturned" =>
        \/ ret = "source" /\ output = source
        \/ ret = "toSource" /\ AllFulfilled /\ output = tree

C3_Witness ==
    /\ pc = "transformReturned"
    /\ ret = "source"
    /\ output = source
    /\ Mutated # {}
    /\ tree # source

\* C4: root.toSource() never starts while a task of the file is unsettled.
C4_HardBarrier ==
    pc = "toSource" =>
        \A t \in Tasks : translationPromises[t].st \notin {"requested", "returned"}

C4_Witness ==
    /\ pc = "toSource"
    /\ ~dryRun
    /\ Len(translationPromises) >= 2
    /\ \E t \in Tasks : translationPromises[t].caught
    /\ \E t \in Tasks : ~translationPromises[t].caught

\* C5: only candidates of the parsed tree are ever written to, and the tree
\* that is printed has every candidate written with its task's result.
C5_MutatedAreCandidates ==
    /\ Mutated \subseteq Candidates
    /\ (pc = "toSource" \/ ret = "toSource") =>
          /\ Mutated = Candidates
          /\ \A n \in Candidates : \E t \in Tasks :
                /\ translationPromises[t].node = n
                /\ tree[n].value \in { translationPromises[t].result,
                                       Pad(translationPromises[t].result) }

C5_Witness ==
    /\ ret = "toSource"
    /\ Candidates # {}
    /\ Candidates # Leaves
    /\ Mutated = Candidates

\* parsing succeeded and the three loops are over
Classified == PastLoops /\ Len(tree) = Len(source)

\* the text a callback leaves in a leaf of the given kind
Written(kind, result) == IF kind = "StringLiteral" THEN result ELSE Pad(result)

\* C6: one task per qualifying leaf; a leaf is written exactly once, by the
\* callback of its own task and only after that task has settled, also when
\* another leaf carries the same text.
C6_OneTaskOneWrite ==
    /\ \A t, u \in Tasks :
          translationPromises[t].node = translationPromises[u].node => t = u
    /\ Classified => { translationPromises[t].node : t \in Tasks } = Candidates
    /\ \A n \in DOMAIN writes :
          writes[n] = Cardinality({ t \in Tasks :
                                      /\ translationPromises[t].node = n
                                      /\ translationPromises[t].st = "fulfilled" })
    /\ \A t \in Tasks :
          translationPromises[t].st = "fulfilled" =>
              tree[translationPromises[t].node].value =
                  Written(translationPromises[t].kind, translationPromises[t].result)

C6_Witness ==
    /\ pc = "toSource"
    /\ ~dryRun
    /\ Len(source) = 2
    /\ source[1] = source[2]
    /\ Len(translationPromises) = 2
    /\ translationPromises[1].result # translationPromises[2].result
    /\ tree[1] # tree[2]

\* C7: a dry run issues no backend request and writes no file, and each pass
\* over a file reports each candidate leaf exactly once: a report line is
\* emitted exactly when the task of a candidate is created, and it holds the
\* leaf's original text as the classifier read it (the value of a string
\* literal, the trimmed text of a text run or comment).
C7_DryRun ==
    [][ dryRun =>
          /\ requests' = 0
          /\ \A f \in DOMAIN disk : disk'[f] = Untouched
          /\ Classified => Len(translationPromises) = Cardinality(Candidates)
          /\ IF Len(translationPromises') = Len(translationPromises) + 1
             THEN LET n == translationPromises'[Len(translationPromises')].node
                  IN  /\ n \in Candidates
                      /\ \A t \in Tasks : translationPromises[t].node # n
                      /\ report' = Append(report,
                            [file |-> File,
                             text |-> TaskText(source[n].kind, source[n].value)])
             ELSE report' = report ]_vars

C7_Witness ==
    /\ dryRun
    /\ pc = "transformReturned"
    /\ ret = "toSource"
    /\ Cardinality(Candidates) = 1
    /\ processed # {}
    /\ Len(report) = 2

\* what a file's pipeline prints, from its own text and its own tasks
ExpectedLeaf(n) ==
    IF \E t \in Tasks : translationPromises[t].node = n
    THEN LET t == CHOOSE t \in Tasks : translationPromises[t].node = n
         IN  [source[n] EXCEPT !.value = Written(translationPromises[t].kind,
                                                 translationPromises[t].result)]
    ELSE source[n]

\* C8: a failure in one file leaves the other files alone: a step writes at
\* most the current file, and only with that file's own output; that output
\* is fixed by the file's own text and its own tasks' results; and when the
\* run ends every discovered file has been processed.
C8_FileIsolation ==
    [][ /\ \A f \in DOMAIN disk :
              disk'[f] # disk[f] =>
                  pc = "transformReturned" /\ f = File /\ disk'[f].text = output
        /\ pc = "transformReturned" =>
              \/ output = source
              \/ output = [n \in Leaves |-> ExpectedLeaf(n)]
        /\ pc' \in {"done", "aborted"} => processed' = 1..discovered' ]_vars

C8_Witness ==
    /\ pc = "done"
    /\ ~dryRun
    /\ processed = {1, 2}
    /\ disk[1] = Untouched
    /\ disk[2].written
    /\ \E i \in DOMAIN disk[2].text : disk[2].text[i].value = <<98>>

\* C9: a failed translation never rejects its task, and the printed output
\* holds the translation of every leaf whose own translation succeeded,
\* whatever happened to the other tasks.
C9_NodeIsolation ==
    /\ \A t \in Tasks :
          translationPromises[t].caught =>
              /\ translationPromises[t].st \in {"returned", "fulfilled"}
              /\ translationPromises[t].result = translationPromises[t].text
    /\ (~dryRun /\ ret = "toSource") =>
          \A t \in Tasks :
              ~translationPromises[t].caught =>
                  /\ \E c \in BackendContents : translationPromises[t].result = Trim(c)
                  /\ output[translationPromises[t].node].value =
                        Written(translationPromises[t].kind, translationPromises[t].result)

C9_Witness ==
    /\ ~dryRun
    /\ ret = "toSource"
    /\ Len(translationPromises) = 2
    /\ translationPromises[1].caught
    /\ ~translationPromises[2].caught
    /\ output[translationPromises[2].node].value \in {<<98>>, <<32, 98, 32>>}

\* C10 as claimed: no result is written into the tree while another task of
\* the file has not completed.
C10_NoWriteBeforeAllSettled ==
    \A t \in Tasks :
        translationPromises[t].st = "fulfilled" =>
            \A u \in Tasks : translationPromises[u].st # "requested"

\* C10 as amended: a result is written into the tree once its own task has
\* settled, and the print step reads the tree only after every task of the
\* file has completed.
C10_PrintedAfterAllSettled ==
    /\ \A n \in Mutated :
          \E t \in Tasks : /\ translationPromises[t].node = n
                           /\ translationPromises[t].st = "fulfilled"
    /\ ret = "toSource" => AllFulfilled

C10_Witness ==
    /\ ~dryRun
    /\ ret = "toSource"
    /\ Len(translationPromises) = 2
    /\ Mutated = {1, 2}

\* classification of the current file is in progress
InLoops == pc \in {"loopStringLiteral", "loopJSXText", "loopComment"}

\* C11 as claimed: no translation task is started while classification of
\* the file is still in progress.
C11_NoTaskDuringClassification ==
    InLoops => translationPromises = <<>>

\* C11 as amended: tasks are started during classification, one as each
\* candidate is found, but while classification is in progress no backend
\* answer is received and no callback runs: every task is as it was created.
C11_NoSettleDuringClassification ==
    InLoops =>
        \A t \in Tasks :
            /\ ~translationPromises[t].caught
            /\ translationPromises[t].st # "fulfilled"
            /\ ~dryRun =>
                  /\ translationPromises[t].st \in {"requested", "rejected"}
                  /\ translationPromises[t].result = NoText

C11_Witness ==
    /\ pc = "loopComment"
    /\ pathPos <= Len(paths)
    /\ ~dryRun
    /\ clientOk
    /\ requests >= 1
    /\ Len(translationPromises) = 1
    /\ translationPromises[1].st = "requested"

\* C12: once the callback of a task with result r has run, a string literal
\* has the value r; a text run has r between one leading and one trailing
\* space; a comment has r between one leading and one trailing space and is
\* still the kind of comment (line or block) it was.
C12_WriteBackShape ==
    \A t \in Tasks :
        translationPromises[t].st = "fulfilled" =>
            LET r    == translationPromises[t].result
                n    == translationPromises[t].node
                leaf == tree[n]
            IN  /\ leaf.kind = source[n].kind
                /\ leaf.kind = "StringLiteral" => leaf.value = r
                /\ leaf.kind \in {"JSXText", "Comment"} =>
                      /\ Len(leaf.value) = Len(r) + 2
                      /\ leaf.value[1] = 32
                      /\ leaf.value[Len(leaf.value)] = 32
                      /\ SubSeq(leaf.value, 2, Len(leaf.value) - 1) = r
                /\ leaf.kind = "Comment" => leaf.type = source[n].type

C12_Witness ==
    /\ pc = "toSource"
    /\ ~dryRun
    /\ Len(source) = 2
    /\ source[1].kind = "JSXText"
    /\ source[2].type = "CommentLine"
    /\ tree[1].value = <<32, 98, 32>>
    /\ tree[2].value = <<32, 98, 32>>
    /\ tree[2].type = "CommentLine"

\* C13: a leaf the detector rejects never gets a task, is never written to
\* and keeps its parsed content; a backend request is only ever issued for a
\* candidate; and a file without candidates has no task, an unchanged tree
\* and, when printed, the parsed tree as its output.
C13_NonCandidatesUntouched ==
    [][ LET cand == Candidates
        IN  /\ \A t \in Tasks : translationPromises[t].node \in cand
            /\ \A n \in DOMAIN writes :
                  writes[n] > 0 \/ tree[n] # source[n] => n \in cand
            /\ requests' # requests =>
                  /\ InLoops
                  /\ pathPos <= Len(paths)
                  /\ paths[pathPos] \in cand
            /\ cand = {} =>
                  /\ translationPromises = <<>>
                  /\ tree \in {<<>>, source}
                  /\ Mutated = {}
                  /\ ret = "toSource" => output = source ]_vars

C13_Witness ==
    /\ ~dryRun
    /\ clientOk
    /\ pc = "transformReturned"
    /\ ret = "toSource"
    /\ Len(source) = 2
    /\ Candidates = {}
    /\ output = source
    /\ requests = 0

\* a code point of the target-script ranges U+3000-303F, U+3040-309F,
\* U+30A0-30FF, U+FF00-FF9F, U+4E00-9FAF, U+3400-4DBF
InTargetScript(c) ==
    \/ (12288 <= c /\ c <= 12351)
    \/ (12352 <= c /\ c <= 12447)
    \/ (12448 <= c /\ c <= 12543)
    \/ (65280 <= c /\ c <= 65439)
    \/ (19968 <= c /\ c <= 40879)
    \/ (13312 <= c /\ c <= 19903)

\* C14: containsJapanese returns true exactly when the text holds a code
\* point of the target-script ranges, and false otherwise, the empty text
\* included.
C14_DetectorExact ==
    /\ detected \in {"none", "true", "false"}
    /\ detected # "none" =>
          (detected = "true" <=> \E i \in 1..Len(input) : InTargetScript(input[i]))

C14_Witness ==
    /\ detected = "true"
    /\ Len(input) = 2
    /\ ~InTargetScript(input[1])
    /\ input[2] = 19903

\* C15: while any of the three loops of a file is running no callback has
\* run: the tree is the tree as parsed, also when a task has settled at once
\* (dry run, or a client that cannot be built); and every task was created
\* for a candidate of the parsed tree, from that leaf's original text.
C15_ClassifiedFromOriginal ==
    /\ InLoops =>
          /\ tree = source
          /\ Mutated = {}
          /\ \A t \in Tasks : translationPromises[t].st # "fulfilled"
    /\ \A t \in Tasks :
          LET n == translationPromises[t].node
          IN  /\ n \in Candidates
              /\ translationPromises[t].kind = source[n].kind
              /\ translationPromises[t].text = TaskText(source[n].kind, source[n].value)

C15_Witness ==
    /\ dryRun
    /\ pc = "loopComment"
    /\ pathPos <= Len(paths)
    /\ Len(translationPromises) = 1
    /\ translationPromises[1].st = "returned"
    /\ translationPromises[1].kind = "StringLiteral"
    /\ tree = source

\* the leaves whose callback has run
Fulfilled ==
    { translationPromises[t].node :
        t \in { u \in Tasks : translationPromises[u].st = "fulfilled" } }

\* C16: the tree depends on which tasks have been written back and on each
\* task's own result, never on the order in which they settled: a leaf whose
\* callback has run holds its own task's result, every other leaf is as
\* parsed; so the printed tree is fixed by the file and the result of each
\* candidate.
C16_OrderInsensitive ==
    /\ tree # <<>> =>
          tree = [n \in Leaves |-> IF n \in Fulfilled THEN ExpectedLeaf(n) ELSE source[n]]
    /\ ret = "toSource" =>
          /\ Fulfilled = Candidates
          /\ output = [n \in Leaves |-> ExpectedLeaf(n)]

\* the later task has settled and been written back before the earlier one
C16_Witness ==
    /\ ~dryRun
    /\ pc = "awaitAll"
    /\ Len(translationPromises) = 2
    /\ translationPromises[1].st = "returned"
    /\ translationPromises[1].caught
    /\ translationPromises[2].st = "fulfilled"
    /\ ~translationPromises[2].caught
    /\ translationPromises[1].node < translationPromises[2].node
    /\ tree[translationPromises[1].node] = source[translationPromises[1].node]
    /\ tree[translationPromises[2].node] # source[translationPromises[2].node]

\* the run is over: main has returned, or has rejected into main().catch
Finished == pc \in {"done", "aborted"}

\* C17: when every request is eventually answered and every file operation
\* eventually completes, a file that is read reaches the end of transform
\* (printed, or failed with its original text), a file waiting at the join
\* leaves it, and the run finishes.
C17_Terminates ==
    /\ <>Finished
    /\ (pc = "parse") ~> (pc = "transformReturned")
    /\ (pc = "awaitAll") ~> (pc = "transformReturned")
    /\ \A i \in 1..MaxFiles :
          (pc = "readFile" /\ fileIdx = i) ~> (fileIdx = i + 1)

C17_Witness ==
    /\ pc = "done"
    /\ ~dryRun
    /\ clientOk
    /\ requests = 2
    /\ Cardinality(processed) = 2
    /\ \E f \in DOMAIN disk : disk[f].written

\* main is inside processFile(File)
InPipeline ==
    pc \in {"parse", "loopStringLiteral", "loopJSXText", "loopComment",
            "awaitAll", "toSource", "transformReturned"}

\* C18: files are processed one after another: while main is between two
\* files no tree and no task exists; the files before the current one in
\* the list have all returned from processFile; and every task that exists,
\* and so every task that has written to the tree, was created for the
\* current file.
C18_OneFileAtATime ==
    /\ ~InPipeline =>
          /\ tree = <<>>
          /\ source = <<>>
          /\ translationPromises = <<>>
          /\ writes = <<>>
    /\ (InPipeline \/ pc = "readFile") => fileIdx \in 1..Len(files)
    /\ \A i \in 1..Len(files) : i < fileIdx => files[i] \in processed
    /\ \A t \in Tasks :
          /\ InPipeline
          /\ translationPromises[t].file = File
    /\ Cardinality(Mutated) <= Cardinality({ t \in Tasks : translationPromises[t].file = File })

C18_Witness ==
    /\ ~dryRun
    /\ pc = "awaitAll"
    /\ fileIdx = 2
    /\ files[1] \in processed
    /\ disk[files[1]].written
    /\ \E i \in DOMAIN disk[files[1]].text : disk[files[1]].text[i].value = <<98>>
    /\ Len(translationPromises) = 1
    /\ translationPromises[1].file = files[2]
    /\ Mutated # {}

\* C19 as claimed: no file is written more than once in a run.
C19_WrittenAtMostOncePerRun ==
    \A f \in DOMAIN disk : disk[f].times <= 1

\* C19 as amended: a file is written at most once by each call of
\* processFile, so at most once for each path it is found under; the write
\* happens only in a non-dry run, only after transform for that file has
\* returned, with exactly transform's output, which is the original text
\* when the pipeline failed; the call returns with that write, and a call
\* whose read failed writes nothing.
C19_WrittenOncePerCall ==
    [][ /\ \A f \in DOMAIN disk :
              disk'[f] # disk[f] =>
                  /\ ~dryRun
                  /\ pc = "transformReturned"
                  /\ f = File
                  /\ disk'[f] = [written |-> TRUE, text |-> output,
                                 times |-> disk[f].times + 1]
                  /\ ret = "source" => disk'[f].text = source
                  /\ ret \in {"source", "toSource"}
                  /\ fileIdx' = fileIdx + 1
                  /\ pc' \in {"readFile", "glob", "done"}
        /\ \A f \in DOMAIN disk : disk[f].times <= MaxPaths - pathsLeft
        /\ pc = "readFile" => disk' = disk ]_vars

C19_Witness ==
    /\ pc = "done"
    /\ ~dryRun
    /\ requests >= 1
    /\ \E f \in DOMAIN disk : disk[f].times = 2 /\ disk[f].text # <<>>

====
